---- MODULE Spec2Model ----
(***************************************************************************)
(* openapi-enum-arrays: the enum extraction (EnumParser), the naming       *)
(* (SemanticNaming), the deduplication and emission (CodeGenerator) and    *)
(* the plugin handler, as a state machine.                                 *)
(*                                                                         *)
(* Strings are TLA+ strings; a character is a string of length one.        *)
(* Positions are 1-based in the helpers, and 0-based (with -1 for absent)  *)
(* only where the source compares the results of indexOf.                  *)
(***************************************************************************)
EXTENDS Integers, Sequences, FiniteSets, TLC

\* Bounds of the model: the records one scan may extract, the lines of a
\* types file, the length of a list given to generateEnumArrays directly,
\* the items of a type body or nested object of a text given whole, the calls
\* of parseEnumsFromTypeFile on one EnumParser.
MaxEnums == 2
MaxLines == 5
MaxListLen == 3
MaxItems == 2
MaxCalls == 2

(***************************************************************************)
(* JavaScript string primitives.                                           *)
(***************************************************************************)
CharAt(s, i) == SubSeq(s, i, i)

UpperChars == "ABCDEFGHIJKLMNOPQRSTUVWXYZ"
LowerChars == "abcdefghijklmnopqrstuvwxyz"
DigitChars == "0123456789"
\* The printable ASCII characters in code-unit order: 32..95 and 97..126. The
\* backtick (96) cannot be written in a TLA+ string, so the third quote
\* character of the source's ['"`] classes is outside the modelled alphabet.
CodeUnitsLow == " !\"#$%&'()*+,-./0123456789:;<=>?@ABCDEFGHIJKLMNOPQRSTUVWXYZ[\\]^_"
CodeUnitsHigh == "abcdefghijklmnopqrstuvwxyz{|}~"

CharsOf(s) == {CharAt(s, i) : i \in 1..Len(s)}
UpperSet == CharsOf(UpperChars)
LowerSet == CharsOf(LowerChars)
DigitSet == CharsOf(DigitChars)
\* \w of a regular expression: [A-Za-z0-9_]
WordSet == UpperSet \cup LowerSet \cup DigitSet \cup {"_"}
\* \s of a regular expression, as far as the modelled lines go
SpaceSet == {" ", "\t"}
QuoteSet == {"'", "\""}

PosIn(s, c) == CHOOSE i \in 1..Len(s) : CharAt(s, i) = c
\* The UTF-16 code unit of a printable ASCII character.
CodeOf(c) ==
  IF c \in CharsOf(CodeUnitsLow) THEN 31 + PosIn(CodeUnitsLow, c)
  ELSE 96 + PosIn(CodeUnitsHigh, c)

ToLowerChar(c) == IF c \in UpperSet THEN CharAt(LowerChars, PosIn(UpperChars, c)) ELSE c
ToUpperChar(c) == IF c \in LowerSet THEN CharAt(UpperChars, PosIn(LowerChars, c)) ELSE c

RECURSIVE ToLowerCase(_)
ToLowerCase(s) ==
  IF s = "" THEN "" ELSE ToLowerChar(Head(s)) \o ToLowerCase(Tail(s))

\* s.substring(0, n): the first n characters, or all of s when it is shorter.
Substring(s, n) == SubSeq(s, 1, IF Len(s) < n THEN Len(s) ELSE n)

\* s.slice(n): the string from 0-based position n on.
Slice(s, n) == SubSeq(s, n + 1, Len(s))

Includes(s, t) == \E i \in 1..(Len(s) - Len(t) + 1) : SubSeq(s, i, i + Len(t) - 1) = t
StartsWith(s, t) == Len(t) <= Len(s) /\ SubSeq(s, 1, Len(t)) = t
EndsWith(s, t) == Len(t) <= Len(s) /\ SubSeq(s, Len(s) - Len(t) + 1, Len(s)) = t

\* s.indexOf(t): 0-based, -1 when t does not occur.
IndexOf(s, t) ==
  IF Includes(s, t)
  THEN (CHOOSE i \in 1..(Len(s) - Len(t) + 1) :
          /\ SubSeq(s, i, i + Len(t) - 1) = t
          /\ \A j \in 1..(i - 1) : SubSeq(s, j, j + Len(t) - 1) # t) - 1
  ELSE -1

\* s.replace(a, b) with a string pattern: the FIRST occurrence only.
Replace(s, a, b) ==
  LET k == IndexOf(s, a)
  IN IF k = -1 THEN s
     ELSE SubSeq(s, 1, k) \o b \o SubSeq(s, k + Len(a) + 1, Len(s))

\* s.split(c) for a one-character separator.
RECURSIVE SplitFrom(_, _, _)
SplitFrom(s, c, cur) ==
  IF s = "" THEN <<cur>>
  ELSE IF Head(s) = c THEN <<cur>> \o SplitFrom(Tail(s), c, "")
  ELSE SplitFrom(Tail(s), c, cur \o Head(s))
Split(s, c) == SplitFrom(s, c, "")

\* seq.join(sep)
RECURSIVE Join(_, _)
Join(seq, sep) ==
  IF Len(seq) = 0 THEN ""
  ELSE IF Len(seq) = 1 THEN seq[1]
  ELSE seq[1] \o sep \o Join(Tail(seq), sep)

\* s.trim()
RECURSIVE TrimLeft(_)
TrimLeft(s) == IF s # "" /\ Head(s) \in SpaceSet THEN TrimLeft(Tail(s)) ELSE s
RECURSIVE TrimRight(_)
TrimRight(s) ==
  IF s # "" /\ CharAt(s, Len(s)) \in SpaceSet THEN TrimRight(SubSeq(s, 1, Len(s) - 1)) ELSE s
Trim(s) == TrimRight(TrimLeft(s))

\* The order of the default Array.prototype.sort: by UTF-16 code units.
RECURSIVE StrLess(_, _)
StrLess(a, b) ==
  IF b = "" THEN FALSE
  ELSE IF a = "" THEN TRUE
  ELSE IF Head(a) = Head(b) THEN StrLess(Tail(a), Tail(b))
  ELSE CodeOf(Head(a)) < CodeOf(Head(b))

\* values.sort(): stable insertion sort in the default order.
RECURSIVE InsertSorted(_, _)
InsertSorted(sorted, v) ==
  IF sorted = <<>> THEN <<v>>
  ELSE IF StrLess(v, Head(sorted)) THEN <<v>> \o sorted
  ELSE <<Head(sorted)>> \o InsertSorted(Tail(sorted), v)
RECURSIVE SortStrings(_)
SortStrings(seq) ==
  IF seq = <<>> THEN <<>>
  ELSE InsertSorted(SortStrings(SubSeq(seq, 1, Len(seq) - 1)), seq[Len(seq)])

\* str.charAt(0).toUpperCase() + str.slice(1)
capitalizeFirst(str) == IF str = "" THEN "" ELSE ToUpperChar(Head(str)) \o Tail(str)
\* str.charAt(0).toLowerCase() + str.slice(1)
lowerFirst(str) == IF str = "" THEN "" ELSE ToLowerChar(Head(str)) \o Tail(str)

(***************************************************************************)
(* CodeGenerator (src/src/generator.ts).                                   *)
(* An EnumInfo is a record [name, values, originalTypePath].  Inside       *)
(* generateEnumArrays a record also carries ref, the position in the       *)
(* input list of the record whose values array it shares: the spread       *)
(* {...enumInfo, name} of the first pass copies the reference, not the     *)
(* array, and generateArrayConstants sorts that array in place.            *)
(***************************************************************************)
EnumInfo(name, values, path) ==
  [name |-> name, values |-> values, originalTypePath |-> path]

WithRefs(enums) ==
  [i \in 1..Len(enums) |->
     [name |-> enums[i].name, values |-> enums[i].values,
      originalTypePath |-> enums[i].originalTypePath, ref |-> i]]

\* The method checks made before the marker checks, and the leading segment
\* not looked at
extractContextForConflictVerbFirst(originalTypePath) ==
  LET p == originalTypePath
  IN IF StartsWith(p, "Get") /\ Includes(p, "Data.") THEN "query"
     ELSE IF (StartsWith(p, "Post") \/ StartsWith(p, "Put")) /\ Includes(p, "Data.")
          THEN "request"
     ELSE IF Includes(p, ".query.") THEN "query"
     ELSE IF Includes(p, ".body.") THEN "request"
     ELSE IF Includes(p, "ResponseData.") THEN "response"
     ELSE IF Includes(p, "query") THEN "query"
     ELSE IF Includes(p, "body") \/ Includes(p, "Request") THEN "request"
     ELSE IF Includes(p, "Response") THEN "response"
     ELSE ""

extractContextForConflict(originalTypePath) ==
  LET p == originalTypePath
      \* originalTypePath.match(/^(\w+)\./): the leading word run, if a dot follows it
      firstDot == IndexOf(p, ".")
      objectName ==
        IF firstDot > 0 /\ \A i \in 1..firstDot : CharAt(p, i) \in WordSet
        THEN ToLowerCase(SubSeq(p, 1, firstDot)) ELSE ""
  IN IF Includes(p, ".query.") THEN "query"
     ELSE IF Includes(p, ".body.") THEN "request"
     ELSE IF Includes(p, "ResponseData.") THEN "response"
     ELSE IF StartsWith(p, "Get") /\ Includes(p, "Data.") THEN "query"
     ELSE IF (StartsWith(p, "Post") \/ StartsWith(p, "Put")) /\ Includes(p, "Data.")
          THEN "request"
     ELSE IF Includes(p, "query") THEN "query"
     ELSE IF Includes(p, "body") \/ Includes(p, "Request") THEN "request"
     ELSE IF Includes(p, "Response") THEN "response"
     ELSE IF objectName # "" /\ Includes(objectName, "query") THEN "query"
     ELSE IF objectName # "" /\ (Includes(objectName, "request")
                                 \/ Includes(objectName, "post")
                                 \/ Includes(objectName, "put")) THEN "request"
     ELSE IF objectName # "" /\ (Includes(objectName, "response")
                                 \/ Includes(objectName, "get")) THEN "response"
     ELSE ""   \* null

\* parts[parts.length - 1] || null; "" stands for null
extractFieldName(originalTypePath) ==
  LET parts == Split(originalTypePath, ".") IN parts[Len(parts)]

\* originalTypePath.replace(/[^a-zA-Z0-9.]/g, '')
RECURSIVE keepPathChars(_)
keepPathChars(s) ==
  IF s = "" THEN ""
  ELSE (IF Head(s) \in UpperSet \cup LowerSet \cup DigitSet \cup {"."} THEN Head(s) ELSE "")
       \o keepPathChars(Tail(s))

\* generateFullPathName: the segments of the path joined in camelCase.  No
\* method of the generator calls it.
generateFullPathName(enumInfo) ==
  LET parts == Split(keepPathChars(enumInfo.originalTypePath), ".")
      cleaned == Join([i \in 1..Len(parts) |->
                         IF i = 1 THEN lowerFirst(parts[i]) ELSE capitalizeFirst(parts[i])], "")
  IN IF enumInfo.originalTypePath = "" THEN enumInfo.name
     ELSE IF cleaned = "" THEN enumInfo.name
     ELSE cleaned

\* A fallback to the full path name when no context is found
generateContextualNameFullPath(enumInfo) ==
  LET context == extractContextForConflict(enumInfo.originalTypePath)
      fieldName == extractFieldName(enumInfo.originalTypePath)
  IN IF context # "" /\ fieldName # "" THEN context \o capitalizeFirst(fieldName)
     ELSE IF context # "" THEN context \o capitalizeFirst(enumInfo.name)
     ELSE generateFullPathName(enumInfo)

\* A fallback to the field name alone when no context is found
generateContextualNameFieldOnly(enumInfo) ==
  LET context == extractContextForConflict(enumInfo.originalTypePath)
      fieldName == extractFieldName(enumInfo.originalTypePath)
  IN IF context # "" /\ fieldName # "" THEN context \o capitalizeFirst(fieldName)
     ELSE IF context # "" THEN context \o capitalizeFirst(enumInfo.name)
     ELSE fieldName

\* A numbered fallback, which the generator does not have: a colliding name
\* with no context gets a number appended.
generateContextualNameNumbered(enumInfo) ==
  LET context == extractContextForConflict(enumInfo.originalTypePath)
      fieldName == extractFieldName(enumInfo.originalTypePath)
  IN IF context # "" /\ fieldName # "" THEN context \o capitalizeFirst(fieldName)
     ELSE IF context # "" THEN context \o capitalizeFirst(enumInfo.name)
     ELSE enumInfo.name \o "2"

generateContextualName(enumInfo) ==
  LET context == extractContextForConflict(enumInfo.originalTypePath)
      fieldName == extractFieldName(enumInfo.originalTypePath)
  IN IF context # "" /\ fieldName # "" THEN context \o capitalizeFirst(fieldName)
     ELSE IF context # "" THEN context \o capitalizeFirst(enumInfo.name)
     ELSE enumInfo.name

\* The keys of a Map filled in list order: distinct, in first-insertion order.
RECURSIVE KeysInOrder(_)
KeysInOrder(keys) ==
  IF keys = <<>> THEN <<>>
  ELSE LET init == SubSeq(keys, 1, Len(keys) - 1)
           last == keys[Len(keys)]
           rest == KeysInOrder(init)
       IN IF \E i \in 1..Len(init) : init[i] = last THEN rest ELSE Append(rest, last)

RECURSIVE Flatten(_)
Flatten(seqs) == IF seqs = <<>> THEN <<>> ELSE Head(seqs) \o Flatten(Tail(seqs))

\* First pass of deduplicateEnums: name groups, in Map order
nameGroups(enums) ==
  LET keys == KeysInOrder([i \in 1..Len(enums) |-> enums[i].name])
  IN [k \in 1..Len(keys) |-> SelectSeq(enums, LAMBDA e : e.name = keys[k])]

renameGroup(enumsWithSameName) ==
  IF Len(enumsWithSameName) = 1 THEN enumsWithSameName
  ELSE [i \in 1..Len(enumsWithSameName) |->
          [enumsWithSameName[i] EXCEPT !.name = generateContextualName(enumsWithSameName[i])]]

processedEnums(enums) ==
  LET groups == nameGroups(enums)
  IN Flatten([k \in 1..Len(groups) |-> renameGroup(groups[k])])

\* [...enumInfo.values].sort().join('|')
sortedValuesKey(enumInfo) == Join(SortStrings(enumInfo.values), "|")

valueGroups(processed) ==
  LET keys == KeysInOrder([i \in 1..Len(processed) |-> sortedValuesKey(processed[i])])
  IN [k \in 1..Len(keys) |->
        [valuesKey |-> keys[k],
         members |-> SelectSeq(processed, LAMBDA e : sortedValuesKey(e) = keys[k])]]

genericTerms == <<"data", "response", "request", "query", "body", "params">>

mergeScore(enumInfo) ==
  LET lowerName == ToLowerCase(enumInfo.name)
  IN (50 - Len(enumInfo.name))
     - (IF \E t \in 1..Len(genericTerms) : Includes(lowerName, genericTerms[t])
        THEN 20 ELSE 0)
     + (IF Includes(lowerName, "request") \/ Includes(lowerName, "response")
           \/ Includes(lowerName, "query")
        THEN 10 ELSE 0)

\* scored.sort((a, b) => b.score - a.score)[0]: the sort is stable, so the
\* first member with the highest score
chooseBestEnumForMerging(enums) ==
  LET best == CHOOSE i \in 1..Len(enums) :
                /\ \A j \in 1..Len(enums) : mergeScore(enums[j]) <= mergeScore(enums[i])
                /\ \A j \in 1..(i - 1) : mergeScore(enums[j]) < mergeScore(enums[i])
  IN enums[best]

\* enumMap.set(key, value): a new key goes last, an old key keeps its place
MapSet(map, key, value) ==
  IF \E i \in 1..Len(map) : map[i].key = key
  THEN [i \in 1..Len(map) |->
          IF map[i].key = key THEN [key |-> key, value |-> value] ELSE map[i]]
  ELSE Append(map, [key |-> key, value |-> value])

RECURSIVE fillEnumMap(_)
fillEnumMap(groups) ==
  IF groups = <<>> THEN <<>>
  ELSE LET g == groups[Len(groups)]
           chosen == IF Len(g.members) = 1 THEN g.members[1]
                     ELSE chooseBestEnumForMerging(g.members)
           uniqueKey == chosen.name \o ":" \o g.valuesKey
       IN MapSet(fillEnumMap(SubSeq(groups, 1, Len(groups) - 1)), uniqueKey, chosen)

\* deduplicateEnums: Array.from(enumMap.values())
deduplicateEnums(enums) ==
  LET enumMap == fillEnumMap(valueGroups(processedEnums(enums)))
  IN [i \in 1..Len(enumMap) |-> enumMap[i].value]

toArrayName(typeName) ==
  LET camelCase == lowerFirst(typeName)
  IN IF EndsWith(camelCase, "Status") THEN Replace(camelCase, "Status", "Statuses")
     ELSE IF EndsWith(camelCase, "Type") THEN Replace(camelCase, "Type", "Types")
     ELSE IF EndsWith(camelCase, "Model") THEN Replace(camelCase, "Model", "Models")
     ELSE IF EndsWith(camelCase, "Role") THEN Replace(camelCase, "Role", "Roles")
     ELSE IF EndsWith(camelCase, "Source") THEN Replace(camelCase, "Source", "Sources")
     ELSE IF EndsWith(camelCase, "Mode") THEN Replace(camelCase, "Mode", "Modes")
     ELSE camelCase \o "Values"

\* generateArrayConstants without its sort: the values in extraction order
emittedValuesUnsorted(values) == values

\* enumInfo.values.sort() of generateArrayConstants
emittedValues(values) == SortStrings(values)

quoteValue(v) == "'" \o v \o "'"

\* One declaration of generateArrayConstants.  arrayName and values are the
\* parts of the rendered text; enum is the record it was rendered from.
declarationOf(enumInfo, arrayPrefix) ==
  LET arrayName == arrayPrefix \o toArrayName(enumInfo.name)
      values == emittedValues(enumInfo.values)
  IN [arrayName |-> arrayName,
      values |-> values,
      enum |-> enumInfo,
      text |-> "export const " \o arrayName \o " = ["
               \o Join([i \in 1..Len(values) |-> quoteValue(values[i])], ", ")
               \o "] as const"]

generateArrayConstants(enums, arrayPrefix) ==
  [i \in 1..Len(enums) |-> declarationOf(enums[i], arrayPrefix)]

generateHeader == "// This file is auto-generated by openapi-enum-arrays"

\* [header, arrays].filter(Boolean).join('\n\n')
renderCode(decls) ==
  LET arrays == Join([i \in 1..Len(decls) |-> decls[i].text], "\n")
  IN IF arrays = "" THEN generateHeader ELSE generateHeader \o "\n\n" \o arrays

\* The caller's list after generateEnumArrays: the values array of every
\* survivor has been sorted in place
sortedInPlace(enums, survivors) ==
  [i \in 1..Len(enums) |->
     IF \E k \in 1..Len(survivors) : survivors[k].ref = i
     THEN [enums[i] EXCEPT !.values = SortStrings(enums[i].values)]
     ELSE enums[i]]

(***************************************************************************)
(* SemanticNaming (src/src/semantic-naming.ts, lines 1-158).               *)
(* "" stands for null and for an absent path.                              *)
(***************************************************************************)
LetterSet == UpperSet \cup LowerSet

\* The end of the maximal run of characters of set cs that starts at i
\* (i - 1 when the character at i is not in cs).
RECURSIVE RunEnd(_, _, _)
RunEnd(s, i, cs) ==
  IF i <= Len(s) /\ CharAt(s, i) \in cs THEN RunEnd(s, i + 1, cs) ELSE i - 1

\* All matches of /([A-Z][a-z]+(?:[A-Z][a-z]*)*)/g from position i on: a match
\* starts at an upper-case letter followed by a lower-case one and takes the
\* whole run of letters from there.
RECURSIVE capitalizedRuns(_, _)
capitalizedRuns(s, i) ==
  IF i >= Len(s) THEN <<>>
  ELSE IF CharAt(s, i) \in UpperSet /\ CharAt(s, i + 1) \in LowerSet
       THEN LET e == RunEnd(s, i, LetterSet)
            IN <<SubSeq(s, i, e)>> \o capitalizedRuns(s, e + 1)
       ELSE capitalizedRuns(s, i + 1)

httpVerbs == <<"Get", "Post", "Put", "Delete", "Patch">>

\* /^(Get|Post|Put|Delete|Patch)V\d+.*?([A-Z][a-z]+(?:[A-Z][a-z]*)*)/ matches
matchesOpenApiPattern(p) ==
  \E v \in 1..Len(httpVerbs) :
    LET n == Len(httpVerbs[v])
    IN /\ StartsWith(p, httpVerbs[v] \o "V")
       /\ n + 2 <= Len(p)
       /\ CharAt(p, n + 2) \in DigitSet
       /\ \E i \in (n + 3)..(Len(p) - 1) :
            CharAt(p, i) \in UpperSet /\ CharAt(p, i + 1) \in LowerSet

extractDomainFromOpenApiPath(originalTypePath) ==
  LET p == originalTypePath
      resourceMatch == capitalizedRuns(p, 1)
      meaningfulNames ==
        SelectSeq(resourceMatch,
                  LAMBDA name : name \notin {"Data", "Response", "Request", "Query", "Body", "Params"})
      \* /^([A-Z][a-z]+)/
      objectName ==
        IF Len(p) >= 2 /\ CharAt(p, 1) \in UpperSet /\ CharAt(p, 2) \in LowerSet
        THEN SubSeq(p, 1, RunEnd(p, 2, LowerSet)) ELSE ""
  IN IF p = "" THEN ""
     ELSE IF matchesOpenApiPattern(p) /\ Len(meaningfulNames) > 0
          THEN lowerFirst(meaningfulNames[Len(meaningfulNames)])
     ELSE IF objectName # "" /\ objectName \notin {"Query", "Request", "Response", "Data"}
          THEN lowerFirst(objectName)
     ELSE ""

lastSegment(p) == LET parts == Split(p, ".") IN parts[Len(parts)]

extractTypeFromOpenApiPath(originalTypePath) ==
  IF originalTypePath = "" \/ ~Includes(originalTypePath, ".") THEN ""
  ELSE lastSegment(originalTypePath)

\* /^export type (\w+)$/: the word after "export type ", when it is the rest
standaloneTypeName(p) ==
  IF StartsWith(p, "export type ") /\ Len(p) > 12
     /\ \A i \in 13..Len(p) : CharAt(p, i) \in WordSet
  THEN Slice(p, 12) ELSE ""

extractPropertyName(originalTypePath) ==
  IF originalTypePath = "" THEN ""
  ELSE IF Includes(originalTypePath, ".") THEN lastSegment(originalTypePath)
  ELSE ToLowerCase(standaloneTypeName(originalTypePath))

\* The final tier without its "enum" stand-in for a missing first value
generateFromValuesNoStandIn(values) ==
  LET first == IF Len(values) >= 1 THEN Substring(ToLowerCase(values[1]), 3) ELSE ""
      suffix == IF Len(values) > 1 THEN Substring(ToLowerCase(values[2]), 2) ELSE ""
  IN first \o suffix \o "Values"

generateFromValues(values) ==
  LET first == IF Len(values) >= 1 THEN Substring(ToLowerCase(values[1]), 3) ELSE ""
      prefix == IF first = "" THEN "enum" ELSE first
      suffix == IF Len(values) > 1 THEN Substring(ToLowerCase(values[2]), 2) ELSE ""
  IN prefix \o suffix \o "Values"

\* The property tier tried before the domain tiers
generateNamePropertyFirst(values, originalTypePath) ==
  LET openApiDomain == extractDomainFromOpenApiPath(originalTypePath)
      openApiType == extractTypeFromOpenApiPath(originalTypePath)
      propertyName == extractPropertyName(originalTypePath)
  IN IF matchesOpenApiPattern(originalTypePath) /\ openApiDomain # "" /\ openApiType # ""
     THEN openApiDomain \o capitalizeFirst(openApiType)
     ELSE IF propertyName # "" THEN propertyName \o "Values"
     ELSE IF openApiDomain # "" THEN openApiDomain
     ELSE generateFromValues(values)

generateName(values, originalTypePath) ==
  LET openApiDomain == extractDomainFromOpenApiPath(originalTypePath)
      openApiType == extractTypeFromOpenApiPath(originalTypePath)
      propertyName == extractPropertyName(originalTypePath)
  IN IF openApiDomain # "" /\ openApiType # ""
     THEN openApiDomain \o capitalizeFirst(openApiType)
     ELSE IF openApiDomain # "" THEN openApiDomain
     ELSE IF propertyName # "" THEN propertyName \o "Values"
     ELSE generateFromValues(values)

(***************************************************************************)
(* TypeScriptTokenizer, PropertyDetector, UnionExtractor                   *)
(* (src/src/semantic-naming.ts, lines 160-302).                            *)
(***************************************************************************)
shouldSkipLine(line) ==
  \/ line = ""
  \/ StartsWith(line, "//") \/ StartsWith(line, "*")
  \/ StartsWith(line, "/*") \/ StartsWith(line, "/**")

cleanLine(line) == Trim(line)

countOccurrences(text, character) ==
  Cardinality({i \in 1..Len(text) : CharAt(text, i) = character})

\* The first position from i on that is not white space
RECURSIVE SkipSpaces(_, _)
SkipSpaces(s, i) ==
  IF i <= Len(s) /\ CharAt(s, i) \in SpaceSet THEN SkipSpaces(s, i + 1) ELSE i

\* ^export type\s+(\w+)\s*= : [name, the position after the "="], or the
\* name "" when the line does not start that way
typeDefinitionHead(line) ==
  LET nameAt == SkipSpaces(line, 12)
      nameEnd == RunEnd(line, nameAt, WordSet)
      eqAt == SkipSpaces(line, nameEnd + 1)
  IN IF /\ StartsWith(line, "export type")
        /\ nameAt > 12
        /\ nameEnd >= nameAt
        /\ eqAt <= Len(line) /\ CharAt(line, eqAt) = "="
     THEN [name |-> SubSeq(line, nameAt, nameEnd), after |-> eqAt + 1]
     ELSE [name |-> "", after |-> 0]

\* line.match(/^export type\s+(\w+)\s*=\s*\{?/)
extractTypeDefinitionName(line) == typeDefinitionHead(line).name

\* The starts of the word runs of a line, from the left
wordRunStarts(line) ==
  {i \in 1..Len(line) :
     CharAt(line, i) \in WordSet /\ (i = 1 \/ CharAt(line, i - 1) \notin WordSet)}

\* (\w+)\??\s*: from the word run at i: the position after the ":", or 0
colonAfterRun(line, i) ==
  LET e == RunEnd(line, i, WordSet)
      q == IF e + 1 <= Len(line) /\ CharAt(line, e + 1) = "?" THEN e + 2 ELSE e + 1
      c == SkipSpaces(line, q)
  IN IF c <= Len(line) /\ CharAt(line, c) = ":" THEN c + 1 ELSE 0

\* The leftmost element of a non-empty set of positions
Leftmost(S) == CHOOSE i \in S : \A j \in S : i <= j

\* line.match(/(\w+)\??\s*:\s*\{/)
extractNestedObjectProperty(line) ==
  LET hits == {i \in wordRunStarts(line) :
                 LET a == colonAfterRun(line, i)
                     b == SkipSpaces(line, a)
                 IN a > 0 /\ b <= Len(line) /\ CharAt(line, b) = "{"}
  IN IF hits = {} THEN ""
     ELSE SubSeq(line, Leftmost(hits), RunEnd(line, Leftmost(hits), WordSet))

\* (.+?)(?:[;,]|$) from position i of a line with a character at i: the
\* shortest non-empty text that a ";", a "," or the end of the line follows
RECURSIVE lazyUntilTerminator(_, _, _)
lazyUntilTerminator(line, i, k) ==
  IF k >= Len(line) \/ CharAt(line, k + 1) \in {";", ","}
  THEN SubSeq(line, i, k)
  ELSE lazyUntilTerminator(line, i, k + 1)

\* line.match(/(\w+)\??\s*:\s*(.+?)(?:[;,]|$)/) on a trimmed line; the
\* property name "" stands for no match
extractUnionTypeProperty(line) ==
  LET hits == {i \in wordRunStarts(line) :
                 LET a == colonAfterRun(line, i) IN a > 0 /\ a <= Len(line)}
  IN IF hits = {} THEN [propertyName |-> "", typeDefinition |-> ""]
     ELSE LET i == Leftmost(hits)
              a == colonAfterRun(line, i)
              b == SkipSpaces(line, a)
              \* \s* gives its last space back when nothing follows it
              from == IF b <= Len(line) THEN b ELSE Len(line)
          IN [propertyName |-> SubSeq(line, i, RunEnd(line, i, WordSet)),
              typeDefinition |-> Trim(lazyUntilTerminator(line, from, from))]

\* Math.min over the indexOf of each quote, Infinity when absent; 0 stands
\* for Infinity here (positions after the colon are 1-based)
hasObjectOpeningBrace(line) ==
  LET colonIndex == IndexOf(line, ":")
      afterColon == Slice(line, colonIndex + 1)
      braceIndex == IndexOf(afterColon, "{")
      quoteIndexes == {IndexOf(afterColon, q) : q \in QuoteSet} \ {-1}
  IN /\ colonIndex # -1
     /\ braceIndex # -1
     /\ \A q \in quoteIndexes : braceIndex < q

\* typeDefinition.match(/Array<([^>]+)>/): the inner text, "" when no match
RECURSIVE arrayInner(_)
arrayInner(typeDefinition) ==
  LET at == IndexOf(typeDefinition, "Array<")
      rest == Slice(typeDefinition, at + 6)
      close == IndexOf(rest, ">")
  IN IF at = -1 \/ close = -1 THEN ""
     ELSE IF close = 0 THEN arrayInner(rest)
     ELSE SubSeq(rest, 1, close)

\* part.match(/^(['"`])(.+?)\1$/): the literal's text, "" when no match
quotedLiteral(part) ==
  IF Len(part) >= 3 /\ Head(part) \in QuoteSet /\ CharAt(part, Len(part)) = Head(part)
  THEN SubSeq(part, 2, Len(part) - 1) ELSE ""

\* UnionExtractor.extractEnumValues and EnumParser.extractEnumValues (the
\* same text twice in the source)
RECURSIVE extractEnumValues(_)
extractEnumValues(typeDefinition) ==
  LET innerType == arrayInner(typeDefinition)
      split == Split(typeDefinition, "|")
      parts == [i \in 1..Len(split) |-> Trim(split[i])]
      literals == SelectSeq([i \in 1..Len(parts) |-> quotedLiteral(parts[i])],
                            LAMBDA v : v # "")
  IN IF innerType # "" THEN KeysInOrder(extractEnumValues(innerType))
     ELSE IF Includes(typeDefinition, "|") THEN KeysInOrder(literals)
     ELSE <<>>

\* typeDefinition.replace(/;$/, '') and .replace(/[;,]$/, '')
stripLast(s, cs) ==
  IF s # "" /\ CharAt(s, Len(s)) \in cs THEN SubSeq(s, 1, Len(s) - 1) ELSE s

(***************************************************************************)
(* ScopeTracker (src/src/semantic-naming.ts, lines 185-232): a tracker is  *)
(* a record [contextPath, nestingLevel, isInTypeDefinition].               *)
(***************************************************************************)
newScopeTracker ==
  [contextPath |-> <<>>, nestingLevel |-> 0, isInTypeDefinition |-> FALSE]

startTypeDefinition(t, typeName) ==
  [contextPath |-> <<typeName>>, nestingLevel |-> 0, isInTypeDefinition |-> TRUE]

enterNestedObject(t, propertyName, braceCount) ==
  [t EXCEPT !.contextPath = Append(t.contextPath, propertyName),
            !.nestingLevel = t.nestingLevel + braceCount]

adjustNestingLevel(t, braceCount) ==
  [t EXCEPT !.nestingLevel = t.nestingLevel + braceCount]

\* braceCount pops without the length test: the first element can go
popIncludingRoot(path, braceCount) ==
  SubSeq(path, 1, IF Len(path) - braceCount < 0 THEN 0 ELSE Len(path) - braceCount)

\* braceCount pops, none of which removes the first element
popKeepingRoot(path, braceCount) ==
  IF Len(path) <= 1 THEN path
  ELSE SubSeq(path, 1, IF Len(path) - braceCount < 1 THEN 1 ELSE Len(path) - braceCount)

\* An exitScope without its reset: the depth is kept from going negative,
\* the path and the inside-a-type flag stay
exitScopeNoReset(t, braceCount) ==
  [t EXCEPT !.nestingLevel = IF t.nestingLevel - braceCount <= 0 THEN 0
                             ELSE t.nestingLevel - braceCount,
            !.contextPath = popKeepingRoot(t.contextPath, braceCount)]

exitScope(t, braceCount) ==
  IF t.nestingLevel - braceCount <= 0
  THEN [contextPath |-> <<>>, nestingLevel |-> 0, isInTypeDefinition |-> FALSE]
  ELSE [t EXCEPT !.nestingLevel = t.nestingLevel - braceCount,
                 !.contextPath = popKeepingRoot(t.contextPath, braceCount)]

hasContext(t) == Len(t.contextPath) > 0

(***************************************************************************)
(* EnumParser (src/src/semantic-naming.ts, lines 307-461).                 *)
(***************************************************************************)
\* One match of typeDefRegex, /^export type\s+(\w+)\s*=\s*(.+);?$/gm, and the
\* body of the loop of parseStandaloneTypes: the records (none or one) that
\* a raw line adds.  The lines of the model all hold the name, the "=" and
\* the start of the definition, so no match runs over a line break.
standaloneRecords(rawLine) ==
  LET head == typeDefinitionHead(rawLine)
      typeDefinition == Slice(rawLine, head.after - 1)
      cleanTypeDefinition == Trim(stripLast(typeDefinition, {";"}))
      enumValues == extractEnumValues(cleanTypeDefinition)
      originalTypePath == "export type " \o head.name
  IN IF head.name = "" \/ typeDefinition = "" THEN <<>>
     ELSE IF Len(enumValues) > 0
          THEN <<EnumInfo(generateName(enumValues, originalTypePath),
                          enumValues, originalTypePath)>>
     ELSE <<>>

\* The union branch without its enumValues.length > 0 test: a record for
\* every property line, with whatever values were recovered
unionRecordsUnguarded(t, unionTypeProperty) ==
  LET cleanTypeDefinition == Trim(stripLast(unionTypeProperty.typeDefinition, {";", ","}))
      enumValues == extractEnumValues(cleanTypeDefinition)
      fullPropertyPath ==
        Join(Append(t.contextPath, unionTypeProperty.propertyName), ".")
  IN <<EnumInfo(generateName(enumValues, fullPropertyPath),
                enumValues, fullPropertyPath)>>

\* The records (none or one) that a union property line adds
unionRecords(t, unionTypeProperty) ==
  LET cleanTypeDefinition == Trim(stripLast(unionTypeProperty.typeDefinition, {";", ","}))
      enumValues == extractEnumValues(cleanTypeDefinition)
      fullPropertyPath ==
        Join(Append(t.contextPath, unionTypeProperty.propertyName), ".")
  IN IF Len(enumValues) > 0
     THEN <<EnumInfo(generateName(enumValues, fullPropertyPath),
                     enumValues, fullPropertyPath)>>
     ELSE <<>>

\* The body of the loop of extractEnumsFromNestedTypeProperties for one raw
\* line: the tracker after it and the records it adds.
scanLine(t, rawLine) ==
  LET line == cleanLine(rawLine)
      typeDefinitionName == extractTypeDefinitionName(line)
      openingBraceCount == countOccurrences(line, "{")
      closingBraceCount == countOccurrences(line, "}")
      nestedObjectPropertyName == extractNestedObjectProperty(line)
      unionTypeProperty == extractUnionTypeProperty(line)
      isUnion == unionTypeProperty.propertyName # ""
      afterExit == IF closingBraceCount > 0 THEN exitScope(t, closingBraceCount) ELSE t
      afterAdjust ==
        IF openingBraceCount > 0 /\ ~isUnion
        THEN adjustNestingLevel(afterExit, openingBraceCount) ELSE afterExit
  IN IF shouldSkipLine(line) THEN [tracker |-> t, found |-> <<>>]
     ELSE IF typeDefinitionName # ""
          THEN [tracker |-> IF Includes(line, "{")
                            THEN adjustNestingLevel(startTypeDefinition(t, typeDefinitionName), 1)
                            ELSE startTypeDefinition(t, typeDefinitionName),
                found |-> <<>>]
     ELSE IF ~t.isInTypeDefinition THEN [tracker |-> t, found |-> <<>>]
     ELSE IF nestedObjectPropertyName # ""
          THEN [tracker |-> enterNestedObject(t, nestedObjectPropertyName, openingBraceCount),
                found |-> <<>>]
     ELSE IF isUnion /\ hasContext(t) /\ hasObjectOpeningBrace(line)
          THEN [tracker |-> enterNestedObject(t, unionTypeProperty.propertyName, openingBraceCount),
                found |-> <<>>]
     ELSE [tracker |-> afterAdjust,
           found |-> IF isUnion /\ hasContext(t) THEN unionRecords(t, unionTypeProperty)
                     ELSE <<>>]

(***************************************************************************)
(* The inputs of the model.                                                *)
(***************************************************************************)
\* The lines the types file is made of: a type definition written one
\* property per line, and standalone definitions.
TypeOpenLine == "export type Root = {"
ObjectOpenLine == "  query?: {"
UnionLineA == "    type?: 'mysql' | 'postgres';"
UnionLineB == "  type?: 'b' | 'a';"
DigitLine == "  v2: 'x' | 'y';"
ScalarLine == "  name: string | null;"
UrlLine == "  url: '/api/{id}';"
CommentLine == "  // note"
CloseLine == "  };"
StatusLine == "export type Status = 'active' | 'inactive' | 'pending';"
OrderStatusLine == "export type OrderStatus = 'PENDING' | 'COMPLETED';"
MixedLine == "export type Mixed = string | number;"
ArrayLine == "  tags: Array<'tag1' | 'tag2' | 'tag3'>;"
NestedArrayLine == "  tags: Array<Array<'tag1' | 'tag2' | 'tag3'>>;"
InlineObjectLine == "  meta: { id: string };"
MethodOpenLine == "  run(): {"

\* What each line is in the text: kind, and the name it declares
LineTable ==
  << [text |-> TypeOpenLine, kind |-> "typeOpen", name |-> "Root"],
     [text |-> ObjectOpenLine, kind |-> "objectOpen", name |-> "query"],
     [text |-> UnionLineA, kind |-> "union", name |-> "type"],
     [text |-> UnionLineB, kind |-> "union", name |-> "type"],
     [text |-> DigitLine, kind |-> "union", name |-> "v2"],
     [text |-> ScalarLine, kind |-> "scalar", name |-> "name"],
     [text |-> UrlLine, kind |-> "scalar", name |-> "url"],
     [text |-> CommentLine, kind |-> "comment", name |-> ""],
     [text |-> CloseLine, kind |-> "close", name |-> ""],
     [text |-> StatusLine, kind |-> "standalone", name |-> "Status"],
     [text |-> OrderStatusLine, kind |-> "standalone", name |-> "OrderStatus"],
     [text |-> MixedLine, kind |-> "standalone", name |-> "Mixed"] >>

Lines == {LineTable[i].text : i \in 1..Len(LineTable)}

\* Lines that only a text given whole holds
ArrayLineTable ==
  << [text |-> ArrayLine, kind |-> "union", name |-> "tags"],
     [text |-> NestedArrayLine, kind |-> "union", name |-> "tags"],
     [text |-> InlineObjectLine, kind |-> "inline", name |-> "meta"],
     [text |-> MethodOpenLine, kind |-> "objectOpen", name |-> "run"] >>

LineInfo(line) ==
  LET table == LineTable \o ArrayLineTable
  IN table[CHOOSE i \in 1..Len(table) : table[i].text = line]

\* The literal values written on a union or standalone line, in text order
LineValues(line) ==
  CASE line = UnionLineA -> <<"mysql", "postgres">>
    [] line = UnionLineB -> <<"b", "a">>
    [] line = DigitLine -> <<"x", "y">>
    [] line = StatusLine -> <<"active", "inactive", "pending">>
    [] line = OrderStatusLine -> <<"PENDING", "COMPLETED">>
    [] line \in {ArrayLine, NestedArrayLine} -> <<"tag1", "tag2", "tag3">>
    [] OTHER -> <<>>

\* The brace structure of the text read so far: the names of the type
\* definition and of the object properties that are open, outermost first.
\* A text that is not a sequence of standalone definitions and brace-balanced
\* one-property-per-line type definitions has no such structure.
NoStructure == [wellFormed |-> FALSE, open |-> <<>>]
structureAfter(st, line) ==
  LET info == LineInfo(line)
      inside == Len(st.open) > 0
  IN IF ~st.wellFormed THEN NoStructure
     ELSE CASE info.kind = "comment" -> st
            [] info.kind \in {"typeOpen", "standalone"} ->
                 IF inside THEN NoStructure
                 ELSE IF info.kind = "typeOpen" THEN [st EXCEPT !.open = <<info.name>>]
                 ELSE st
            [] info.kind = "objectOpen" ->
                 IF inside THEN [st EXCEPT !.open = Append(st.open, info.name)]
                 ELSE NoStructure
            [] info.kind = "close" ->
                 IF inside THEN [st EXCEPT !.open = SubSeq(st.open, 1, Len(st.open) - 1)]
                 ELSE NoStructure
            [] OTHER -> IF inside THEN st ELSE NoStructure

\* Texts given whole: one type definition written one property per line,
\* brace-balanced, the property names distinct within each object, with or
\* without a standalone definition before it.  A body has up to MaxItems
\* items, an item being a property line, a nested object of up to MaxItems
\* property lines, or a method signature with an empty object as return type.
DistinctSeqs(S, n) ==
  {q \in UNION {[1..k -> S] : k \in 0..n} :
     \A a, b \in 1..Len(q) : q[a] = q[b] => a = b}

ObjectBlocks ==
  { <<ObjectOpenLine>> \o inner \o <<CloseLine>> :
      inner \in DistinctSeqs({UnionLineA, UrlLine, ScalarLine}, MaxItems) }

Items ==
  { <<line>> : line \in {UnionLineB, DigitLine, UrlLine, ArrayLine, NestedArrayLine,
                         InlineObjectLine} }
  \cup ObjectBlocks
  \cup { <<MethodOpenLine, CloseLine>> }

ItemName(item) == LineInfo(item[1]).name

TypeBodies ==
  {q \in UNION {[1..k -> Items] : k \in 0..MaxItems} :
     \A a, b \in 1..Len(q) : ItemName(q[a]) = ItemName(q[b]) => a = b}

Contents ==
  LET types == { <<TypeOpenLine>> \o Flatten(body) \o <<CloseLine>> : body \in TypeBodies }
  IN types \cup { <<StatusLine>> \o t : t \in types }

\* The arguments of a direct call of generateName: a values list, empty or
\* not, and a path of every tier or none ("")
NameValues ==
  { <<>>, <<"a">>, <<"active", "inactive">>, <<"PENDING", "COMPLETED">>,
    <<"Hi">>, <<"json", "xml", "csv">> }

NamePaths ==
  { "", "status", "ApiData.status", "Config.tags", "User", "User.status",
    "GetV1UsersData.query.role", "PostV2OrdersData", "GetV1Data.kind",
    "ResponseData.format", "Data.kind", "query.type", "tags.",
    "export type Status", "export type OrderStatus" }

\* The plugin options: includePatterns and excludePatterns are absent or a
\* list of patterns
Absent == [given |-> FALSE, patterns |-> <<>>]
Given(patterns) == [given |-> TRUE, patterns |-> patterns]
IncludeChoices == {Absent, Given(<<"query">>)}
ExcludeChoices == {Absent, Given(<<"Values", "query">>)}
PrefixChoices == {"", "ENUM_"}

\* The records a caller of generateEnumArrays builds its list from
EnumPool ==
  { EnumInfo("userType", <<"admin", "viewer">>, "query.type"),
    EnumInfo("userType", <<"basic", "premium">>, "account.type"),
    EnumInfo("format", <<"b", "a">>, "GetV1ItemsData.query.format"),
    EnumInfo("format", <<"a", "b">>, "PostV1ItemsData.body.format"),
    EnumInfo("format", <<"a", "b">>, "ResponseData.format"),
    EnumInfo("OrderStatus", <<"PENDING", "COMPLETED">>, "export type OrderStatus"),
    EnumInfo("separator", <<"a|b">>, "export type Separator"),
    EnumInfo("userModelMode", <<"on", "off">>, "User.modelMode") }

EnumLists == UNION {[1..n -> EnumPool] : n \in 0..MaxListLen}

\* Paths of records that collide on the name type: the paths of the
\* generator's tests and one or more for every branch of
\* extractContextForConflict
QualifierPaths ==
  { "GetV1ResourcesData.query.type", "PostV1ResourcesData.body.type",
    "ResponseData.type", "query.type", "account.type",
    "ResponseData.query.type", "ResponseData.body.type", "GetResponseData.type",
    "GetV1ResourcesData.type", "PostV1ResourcesData.type", "PutV1ResourcesData.type",
    "UserRequest.type", "UserResponse.type", "PostResponse.type",
    "request.type", "put.type", "get.type", "widget.type" }

\* One record named type, or two of different values
QualifierLists ==
  { <<EnumInfo("type", <<"optionA", "optionB">>, p)>> : p \in QualifierPaths }
  \cup { <<EnumInfo("type", <<"optionA", "optionB">>, p),
           EnumInfo("type", <<"methodX", "methodY">>, q)>> : p, q \in QualifierPaths }

\* Records whose names score alike, or come to collide only after a renaming
MergePool ==
  { EnumInfo("userType", <<"admin", "viewer">>, "query.type"),
    EnumInfo("userType", <<"basic", "premium">>, "account.type"),
    EnumInfo("queryType", <<"x", "y">>, "Search.queryType"),
    EnumInfo("format", <<"a", "b">>, "export type Format"),
    EnumInfo("layout", <<"b", "a">>, "export type Layout"),
    EnumInfo("format", <<"x", "y">>, "Report.format"),
    EnumInfo("mode", <<"on", "off">>, "export type RequestMode") }

NamingLists == QualifierLists \cup UNION {[1..n -> MergePool] : n \in 0..MaxListLen}

(***************************************************************************)
(* The state.                                                              *)
(***************************************************************************)
VARIABLES
  pc,                 \* where the run is: see the actions
  content,            \* the text of the types file when the call is given one
                      \* whole, as lines; <<>> when the lines come one by one
  naming,             \* a direct call of generateName: its values, its path
                      \* ("" when absent) and the name returned ("" before)
  rawLine,            \* the line the scans read last
  linesRead,          \* how many lines they have read
  structure,          \* the brace structure of the text the scans have read
  scopeTracker,       \* the ScopeTracker of sub-scan B
  standaloneEnums,    \* the records of parseStandaloneTypes so far
  foundEnums,         \* the records of extractEnumsFromNestedTypeProperties so far
  parsedEnums,        \* what parseEnumsFromTypeFile returned
  includePatterns, excludePatterns, arrayPrefix,    \* the options
  enums,              \* the list given to generateEnumArrays
  processed,          \* processedEnums, the list after the first pass
  deduplicatedEnums,  \* what deduplicateEnums returned
  deduplicatedAgain,  \* what it returned when given deduplicatedEnums, if it was
  declarations,       \* the declarations of generateArrayConstants
  generatedCode,      \* what generateEnumArrays returned
  outputFile,         \* the text written, "" when nothing was
  invocation,         \* what the host gave: an output path? a types file there?
  debug,              \* the debug option
  console,            \* how many warnings, errors and stack traces were reported
  handlerResult,      \* "running", "returned" (normally) or "threw" (to the host)
  lastIndex,          \* typeDefRegex.lastIndex of the EnumParser between two
                      \* calls, in lines: the search of the next call starts
                      \* after that line
  calls               \* the calls of parseEnumsFromTypeFile that have returned

vars == <<pc, content, naming, rawLine, linesRead, structure, scopeTracker, standaloneEnums,
          foundEnums, parsedEnums, includePatterns, excludePatterns, arrayPrefix,
          enums, processed, deduplicatedEnums, deduplicatedAgain, declarations,
          generatedCode, outputFile, invocation, debug, console, handlerResult,
          lastIndex, calls>>

scanVars == <<rawLine, linesRead, structure, scopeTracker, standaloneEnums, foundEnums>>
optionVars == <<includePatterns, excludePatterns, arrayPrefix>>
generatorVars == <<processed, deduplicatedEnums, deduplicatedAgain, declarations,
                   generatedCode>>
hostVars == <<invocation, debug, console, handlerResult>>
instanceVars == <<lastIndex, calls>>

silentConsole == [warnings |-> 0, errors |-> 0, traces |-> 0]

noNaming == [values |-> <<>>, path |-> "", name |-> ""]

\* A plugin run: the host invokes the handler, with or without an output
\* path in the context and with or without a types file at that path
Init ==
  /\ lastIndex = 0
  /\ calls = 0
  /\ pc = "invoked"
  /\ invocation \in [hasOutputPath : BOOLEAN, typesFileExists : BOOLEAN]
  /\ debug = FALSE
  /\ console = silentConsole
  /\ handlerResult = "running"
  /\ content = <<>>
  /\ naming = noNaming
  /\ rawLine = ""
  /\ linesRead = 0
  /\ structure = [wellFormed |-> TRUE, open |-> <<>>]
  /\ scopeTracker = newScopeTracker
  /\ standaloneEnums = <<>>
  /\ foundEnums = <<>>
  /\ parsedEnums = <<>>
  /\ includePatterns = Absent
  /\ excludePatterns = Absent
  /\ arrayPrefix = ""
  /\ enums = <<>>
  /\ processed = <<>>
  /\ deduplicatedEnums = <<>>
  /\ deduplicatedAgain = <<>>
  /\ declarations = <<>>
  /\ generatedCode = ""
  /\ outputFile = ""

\* A direct call of generateEnumArrays on a list the caller built
InitGen ==
  /\ lastIndex = 0
  /\ calls = 0
  /\ pc = "call"
  /\ invocation = [hasOutputPath |-> TRUE, typesFileExists |-> TRUE]
  /\ debug = FALSE
  /\ console = silentConsole
  /\ handlerResult = "running"
  /\ content = <<>>
  /\ naming = noNaming
  /\ rawLine = ""
  /\ linesRead = 0
  /\ structure = [wellFormed |-> TRUE, open |-> <<>>]
  /\ scopeTracker = newScopeTracker
  /\ standaloneEnums = <<>>
  /\ foundEnums = <<>>
  /\ parsedEnums = <<>>
  /\ includePatterns = Absent
  /\ excludePatterns = Absent
  /\ arrayPrefix \in PrefixChoices
  /\ enums \in EnumLists
  /\ processed = <<>>
  /\ deduplicatedEnums = <<>>
  /\ deduplicatedAgain = <<>>
  /\ declarations = <<>>
  /\ generatedCode = ""
  /\ outputFile = ""

\* A direct call on a list of colliding or equally scored records
InitNaming ==
  /\ lastIndex = 0
  /\ calls = 0
  /\ pc = "call"
  /\ invocation = [hasOutputPath |-> TRUE, typesFileExists |-> TRUE]
  /\ debug = FALSE
  /\ console = silentConsole
  /\ handlerResult = "running"
  /\ content = <<>>
  /\ naming = noNaming
  /\ rawLine = ""
  /\ linesRead = 0
  /\ structure = [wellFormed |-> TRUE, open |-> <<>>]
  /\ scopeTracker = newScopeTracker
  /\ standaloneEnums = <<>>
  /\ foundEnums = <<>>
  /\ parsedEnums = <<>>
  /\ includePatterns = Absent
  /\ excludePatterns = Absent
  /\ arrayPrefix = ""
  /\ enums \in NamingLists
  /\ processed = <<>>
  /\ deduplicatedEnums = <<>>
  /\ deduplicatedAgain = <<>>
  /\ declarations = <<>>
  /\ generatedCode = ""
  /\ outputFile = ""

\* A direct call of parseEnumsFromTypeFile on a text given whole
InitParse ==
  /\ lastIndex = 0
  /\ calls = 0
  /\ pc = "parse"
  /\ content \in Contents
  /\ naming = noNaming
  /\ invocation = [hasOutputPath |-> TRUE, typesFileExists |-> TRUE]
  /\ debug = FALSE
  /\ console = silentConsole
  /\ handlerResult = "running"
  /\ rawLine = ""
  /\ linesRead = 0
  /\ structure = [wellFormed |-> TRUE, open |-> <<>>]
  /\ scopeTracker = newScopeTracker
  /\ standaloneEnums = <<>>
  /\ foundEnums = <<>>
  /\ parsedEnums = <<>>
  /\ includePatterns = Absent
  /\ excludePatterns = Absent
  /\ arrayPrefix = ""
  /\ enums = <<>>
  /\ processed = <<>>
  /\ deduplicatedEnums = <<>>
  /\ deduplicatedAgain = <<>>
  /\ declarations = <<>>
  /\ generatedCode = ""
  /\ outputFile = ""

\* A direct call of generateName
InitName ==
  /\ lastIndex = 0
  /\ calls = 0
  /\ pc = "name"
  /\ content = <<>>
  /\ naming \in {[values |-> v, path |-> p, name |-> ""] : v \in NameValues, p \in NamePaths}
  /\ invocation = [hasOutputPath |-> TRUE, typesFileExists |-> TRUE]
  /\ debug = FALSE
  /\ console = silentConsole
  /\ handlerResult = "running"
  /\ rawLine = ""
  /\ linesRead = 0
  /\ structure = [wellFormed |-> TRUE, open |-> <<>>]
  /\ scopeTracker = newScopeTracker
  /\ standaloneEnums = <<>>
  /\ foundEnums = <<>>
  /\ parsedEnums = <<>>
  /\ includePatterns = Absent
  /\ excludePatterns = Absent
  /\ arrayPrefix = ""
  /\ enums = <<>>
  /\ processed = <<>>
  /\ deduplicatedEnums = <<>>
  /\ deduplicatedAgain = <<>>
  /\ declarations = <<>>
  /\ generatedCode = ""
  /\ outputFile = ""

(***************************************************************************)
(* The actions.                                                            *)
(***************************************************************************)
\* parseEnumsFromTypeFile, one line of the content: the two sub-scans read
\* the same lines and share no state, so the model advances both by one line
\* in a step (sub-scan A's match on the line, sub-scan B's loop body).
ScanLineUpTo(line, limit) ==
  LET step == scanLine(scopeTracker, line)
      standalone == IF linesRead + 1 > lastIndex THEN standaloneRecords(line) ELSE <<>>
  IN /\ pc = "parse"
     /\ linesRead < limit
     /\ Len(standaloneEnums) + Len(foundEnums) + Len(standalone) + Len(step.found) <= MaxEnums
     /\ rawLine' = line
     /\ linesRead' = linesRead + 1
     /\ structure' = structureAfter(structure, line)
     /\ scopeTracker' = step.tracker
     /\ standaloneEnums' = standaloneEnums \o standalone
     /\ foundEnums' = foundEnums \o step.found
     /\ UNCHANGED <<instanceVars, pc, content, naming, parsedEnums, optionVars, enums, generatorVars,
                    outputFile, hostVars>>

\* A line of a text of MaxLines lines or fewer
ScanLine(line) == ScanLineUpTo(line, MaxLines)

\* A search that stays where it stopped, at the end of the text
lastIndexLeftAtEnd(searchedLines) == searchedLines

\* The loop of parseStandaloneTypes ends when exec returns null, and an exec
\* that finds no match sets the lastIndex of the regular expression to 0
lastIndexAfterSearch(searchedLines) == 0

\* What parseEnumsFromTypeFile returns with the records of the two sub-scans
\* in the reverse order of its two push calls
parseEnumsFromTypeFileNestedFirst(standalone, nested) == nested \o standalone

\* What parseEnumsFromTypeFile returns: the records of parseStandaloneTypes
\* pushed first, those of extractEnumsFromNestedTypeProperties second
parseEnumsFromTypeFile(standalone, nested) == standalone \o nested

\* The end of the content: parseEnumsFromTypeFile returns sub-scan A's
\* records followed by sub-scan B's, and the locals of the scans are gone
EndOfContent ==
  /\ pc = "parse"
  /\ parsedEnums' = parseEnumsFromTypeFile(standaloneEnums, foundEnums)
  /\ enums' = parseEnumsFromTypeFile(standaloneEnums, foundEnums)
  /\ rawLine' = ""
  /\ structure' = [wellFormed |-> TRUE, open |-> <<>>]
  /\ scopeTracker' = newScopeTracker
  /\ standaloneEnums' = <<>>
  /\ foundEnums' = <<>>
  /\ pc' = "parsed"
  /\ lastIndex' = lastIndexAfterSearch(linesRead)
  /\ calls' = calls + 1
  /\ UNCHANGED <<content, naming, linesRead, optionVars, generatorVars, outputFile, hostVars>>

matchesAny(name, patterns) == \E i \in 1..Len(patterns) : Includes(name, patterns[i])

\* handler, "Apply filters": the include filter, then the exclude filter, on
\* the parsed records.  The options are read-only and first used here, so
\* the model draws them here; a plugin run keeps the default arrayPrefix.
applyFilters(list, include, exclude) ==
  LET included == IF include.given
                  THEN SelectSeq(list, LAMBDA e : matchesAny(e.name, include.patterns))
                  ELSE list
  IN IF exclude.given
     THEN SelectSeq(included, LAMBDA e : ~matchesAny(e.name, exclude.patterns))
     ELSE included

ApplyFilters(include, exclude) ==
  /\ pc = "parsed"
  /\ includePatterns' = include
  /\ excludePatterns' = exclude
  /\ arrayPrefix' = ""
  /\ enums' = applyFilters(enums, include, exclude)
  /\ pc' = "filtered"
  /\ UNCHANGED <<instanceVars, content, naming, scanVars, parsedEnums, generatorVars, outputFile, hostVars>>

\* generateEnumArrays(enums, {arrayPrefix}), from the handler or directly
GenerateEnumArrays ==
  LET survivors == deduplicateEnums(WithRefs(enums))
      decls == generateArrayConstants(survivors, arrayPrefix)
  IN /\ pc \in {"filtered", "call"}
     /\ processed' = processedEnums(WithRefs(enums))
     /\ deduplicatedEnums' = survivors
     /\ deduplicatedAgain' = <<>>
     /\ declarations' = decls
     /\ generatedCode' = renderCode(decls)
     /\ enums' = sortedInPlace(enums, survivors)
     /\ pc' = IF pc = "call" THEN "returned" ELSE "generated"
     /\ UNCHANGED <<instanceVars, content, naming, scanVars, parsedEnums, optionVars, outputFile, hostVars>>

\* handler: writeFileSync(outputPath, generatedCode); what is left of the
\* try block only logs, and the handler returns
WriteOutput ==
  /\ pc = "generated"
  /\ outputFile' = generatedCode
  /\ pc' = "written"
  /\ handlerResult' = "returned"
  /\ UNCHANGED <<instanceVars, content, naming, scanVars, parsedEnums, optionVars, enums, generatorVars,
                 invocation, debug, console>>

\* A guard that warns but does not return: the run goes on into the try block
warnAndContinue(c) ==
  [console |-> [c EXCEPT !.warnings = c.warnings + 1], result |-> "running", next |-> "parse"]

\* handler, the two guards before the try block: console.warn and return
warnAndReturn(c) ==
  [console |-> [c EXCEPT !.warnings = c.warnings + 1], result |-> "returned", next |-> "skipped"]

\* if (!context?.config?.output?.path) { console.warn(...); return }
NoOutputPath ==
  /\ pc = "invoked"
  /\ ~invocation.hasOutputPath
  /\ console' = warnAndReturn(console).console
  /\ handlerResult' = warnAndReturn(console).result
  /\ pc' = warnAndReturn(console).next
  /\ UNCHANGED <<instanceVars, content, naming, scanVars, parsedEnums, optionVars, enums, generatorVars, outputFile,
                 invocation, debug>>

\* if (!existsSync(typesFilePath)) { console.warn(...); return }
NoTypesFile ==
  /\ pc = "invoked"
  /\ invocation.hasOutputPath
  /\ ~invocation.typesFileExists
  /\ console' = warnAndReturn(console).console
  /\ handlerResult' = warnAndReturn(console).result
  /\ pc' = warnAndReturn(console).next
  /\ UNCHANGED <<instanceVars, content, naming, scanVars, parsedEnums, optionVars, enums, generatorVars, outputFile,
                 invocation, debug>>

\* readFileSync(typesFilePath, "utf-8") and new EnumParser()
ReadTypesFile ==
  /\ pc = "invoked"
  /\ invocation.hasOutputPath
  /\ invocation.typesFileExists
  /\ pc' = "parse"
  /\ UNCHANGED <<instanceVars, content, naming, scanVars, parsedEnums, optionVars, enums, generatorVars, outputFile, hostVars>>

\* The steps of the try block: reading, parsing, filtering, generating, writing
tryBlockSteps == {"invoked", "parse", "parsed", "filtered", "generated"}

\* A catch block that reports and, with debug, throws the error again
catchAndRethrow(c, debugFlag) ==
  [console |-> [c EXCEPT !.errors = c.errors + 1,
                         !.traces = c.traces + (IF debugFlag THEN 1 ELSE 0)],
   result |-> IF debugFlag THEN "threw" ELSE "returned"]

\* The catch block: console.error of the error, and with debug a second
\* console.error with the stack trace; nothing is thrown again
catchBlock(c, debugFlag) ==
  [console |-> [c EXCEPT !.errors = c.errors + 1,
                         !.traces = c.traces + (IF debugFlag THEN 1 ELSE 0)],
   result |-> "returned"]

\* A step of the try block throws (readFileSync or writeFileSync fails, or
\* any other step does) and the catch block of the handler runs.  The locals
\* of the try block are gone; debug is read-only and has no other effect
\* that the model tracks, so the model draws it here.  A failed
\* writeFileSync is taken to leave no file.
Failure(debugFlag) ==
  LET caught == catchBlock(console, debugFlag)
  IN /\ pc \in tryBlockSteps
     /\ invocation.hasOutputPath /\ invocation.typesFileExists
     /\ debug' = debugFlag
     /\ console' = caught.console
     /\ handlerResult' = caught.result
     /\ pc' = "caught"
     /\ rawLine' = ""
     /\ linesRead' = 0
     /\ structure' = [wellFormed |-> TRUE, open |-> <<>>]
     /\ scopeTracker' = newScopeTracker
     /\ standaloneEnums' = <<>>
     /\ foundEnums' = <<>>
     /\ parsedEnums' = <<>>
     /\ enums' = <<>>
     /\ processed' = <<>>
     /\ deduplicatedEnums' = <<>>
     /\ deduplicatedAgain' = <<>>
     /\ declarations' = <<>>
     /\ generatedCode' = ""
     /\ UNCHANGED <<instanceVars, content, naming, optionVars, outputFile, invocation>>

Next ==
  \/ NoOutputPath
  \/ NoTypesFile
  \/ ReadTypesFile
  \/ \E debugFlag \in BOOLEAN : Failure(debugFlag)
  \/ \E line \in Lines : ScanLine(line)
  \/ EndOfContent
  \/ \E include \in IncludeChoices, exclude \in ExcludeChoices :
       ApplyFilters(include, exclude)
  \/ GenerateEnumArrays
  \/ WriteOutput

Spec == Init /\ [][Next]_vars

NextGen == GenerateEnumArrays

\* deduplicateEnums called again, on the list it returned
DeduplicateAgain ==
  /\ pc = "returned"
  /\ deduplicatedAgain' = deduplicateEnums(WithRefs(deduplicatedEnums))
  /\ pc' = "repeated"
  /\ UNCHANGED <<instanceVars, content, naming, scanVars, parsedEnums, optionVars, enums, processed, deduplicatedEnums,
                 declarations, generatedCode, outputFile, hostVars>>

\* The scans of a text given whole: its next line, and its end
ScanContentLine ==
  /\ linesRead < Len(content)
  /\ ScanLineUpTo(content[linesRead + 1], Len(content))

EndOfGivenContent ==
  /\ linesRead = Len(content)
  /\ EndOfContent

\* The texts of a later call on the same parser: the same text, or a short
\* one that starts with a standalone definition
RepeatContents(text) == {text, <<StatusLine, TypeOpenLine, UnionLineB, CloseLine>>}

\* parseEnumsFromTypeFile is called again on the same EnumParser
CallAgain ==
  /\ pc = "parsed"
  /\ calls < MaxCalls
  /\ content' \in RepeatContents(content)
  /\ pc' = "parse"
  /\ linesRead' = 0
  /\ parsedEnums' = <<>>
  /\ enums' = <<>>
  /\ UNCHANGED <<instanceVars, naming, rawLine, structure, scopeTracker, standaloneEnums,
                 foundEnums, optionVars, generatorVars, outputFile, hostVars>>

NextParse == ScanContentLine \/ EndOfGivenContent \/ CallAgain

SpecParse == InitParse /\ [][NextParse]_vars

\* generateName(values, originalTypePath) returns
GenerateName ==
  /\ pc = "name"
  /\ naming' = [naming EXCEPT !.name = generateName(naming.values, naming.path)]
  /\ pc' = "named"
  /\ UNCHANGED <<instanceVars, content, scanVars, parsedEnums, optionVars, enums, generatorVars,
                 outputFile, hostVars>>

NextName == GenerateName

SpecName == InitName /\ [][NextName]_vars

NextNaming == GenerateEnumArrays \/ DeduplicateAgain

SpecNaming == InitNaming /\ [][NextNaming]_vars

SpecGen == InitGen /\ [][NextGen]_vars

(***************************************************************************)
(* The properties.                                                         *)
(***************************************************************************)
\* The values of a record as a set: value sets are compared without order
ValueSet(values) == {values[j] : j \in 1..Len(values)}

\* C1: after generateEnumArrays on any list, the declarations correspond
\* one-to-one to the distinct value sets of the list: every value set of
\* the input is the value set of exactly one declaration, and every
\* declaration carries a value set of the input.
C1_DeclarationsMatchValueSets ==
  pc = "returned" =>
    /\ \A i \in 1..Len(enums) :
         Cardinality({k \in 1..Len(declarations) :
                        ValueSet(declarations[k].values) = ValueSet(enums[i].values)}) = 1
    /\ \A k \in 1..Len(declarations) :
         \E i \in 1..Len(enums) :
           ValueSet(declarations[k].values) = ValueSet(enums[i].values)

\* An identifier that is a name followed by a digit and the suffix Values
EndsDigitValues(identifier) ==
  /\ Len(identifier) >= 8
  /\ EndsWith(identifier, "Values")
  /\ CharAt(identifier, Len(identifier) - 6) \in DigitSet

\* C2 as stated: whatever the types file, no identifier written by a plugin
\* run is a name followed by a digit and the suffix Values.
C2_NoDigitBeforeValues ==
  pc = "written" =>
    \A k \in 1..Len(declarations) : ~EndsDigitValues(declarations[k].arrayName)

\* C2, amended: an identifier written by a plugin run ends in a digit and
\* Values only when that digit is the last character of the path of the
\* surviving record, that is the digit was written in the types file as the
\* end of the property name; the pipeline never appends a number of its own.
C2_DigitOnlyFromInput ==
  pc = "written" =>
    \A k \in 1..Len(declarations) :
      LET identifier == declarations[k].arrayName
      IN EndsDigitValues(identifier) =>
           EndsWith(declarations[k].enum.originalTypePath,
                    CharAt(identifier, Len(identifier) - 6))

\* A plugin run on a property named v2 has written its identifier
C2_DigitPropertyEmitted ==
  /\ pc = "written"
  /\ \E k \in 1..Len(declarations) : EndsDigitValues(declarations[k].arrayName)

\* The plugin run, without filters, over a types file of one line that
\* yielded the one record of the given path
WholePipelineOn(originalTypePath) ==
  /\ pc = "written"
  /\ linesRead = 1
  /\ Len(parsedEnums) = 1
  /\ parsedEnums[1].originalTypePath = originalTypePath
  /\ ~includePatterns.given
  /\ ~excludePatterns.given
  /\ arrayPrefix = ""

\* C3: the whole pipeline on the single line
\* export type Status = 'active' | 'inactive' | 'pending'; writes a
\* declaration of the identifier statusValues with the values
\* ['active', 'inactive', 'pending'].
C3_StatusScenario ==
  WholePipelineOn("export type Status") =>
    /\ \E k \in 1..Len(declarations) :
         /\ declarations[k].arrayName = "statusValues"
         /\ declarations[k].values = <<"active", "inactive", "pending">>
    /\ Includes(outputFile, "statusValues = ['active', 'inactive', 'pending']")

\* C4: the whole pipeline on the single line
\* export type OrderStatus = 'PENDING' | 'COMPLETED'; writes a declaration
\* of the identifier orderStatuses with the values ['COMPLETED', 'PENDING'].
C4_OrderStatusScenario ==
  WholePipelineOn("export type OrderStatus") =>
    /\ \E k \in 1..Len(declarations) :
         /\ declarations[k].arrayName = "orderStatuses"
         /\ declarations[k].values = <<"COMPLETED", "PENDING">>
    /\ Includes(outputFile, "orderStatuses = ['COMPLETED', 'PENDING']")

\* The suffix table: the singular suffixes and their plurals
suffixTable ==
  << <<"Status", "Statuses">>, <<"Type", "Types">>, <<"Model", "Models">>,
     <<"Role", "Roles">>, <<"Source", "Sources">>, <<"Mode", "Modes">> >>

\* The identifier the table asks for: the first letter lower-cased, then
\* the trailing suffix alone replaced by its plural, or Values appended
tableIdentifier(name) ==
  LET lowered == lowerFirst(name)
      rows == {r \in 1..Len(suffixTable) : EndsWith(lowered, suffixTable[r][1])}
  IN IF rows = {} THEN lowered \o "Values"
     ELSE LET r == CHOOSE r \in rows : \A q \in rows : r <= q
          IN SubSeq(lowered, 1, Len(lowered) - Len(suffixTable[r][1])) \o suffixTable[r][2]

\* C5: the identifier of every declaration is the name of its record with
\* the first letter lower-cased and then, when it ends in Status, Type,
\* Model, Role, Source or Mode, exactly that trailing suffix replaced by its
\* plural and no other character changed, and otherwise Values appended
\* (after the array prefix, when one is given).
C5_SuffixTable ==
  pc = "returned" =>
    \A k \in 1..Len(declarations) :
      declarations[k].arrayName = arrayPrefix \o tableIdentifier(declarations[k].enum.name)

\* A list of strings in ascending order of code units
IsSorted(values) ==
  \A i \in 1..Len(values) : \A j \in (i + 1)..Len(values) : ~StrLess(values[j], values[i])

passesFilters(name) ==
  /\ includePatterns.given => matchesAny(name, includePatterns.patterns)
  /\ excludePatterns.given => ~matchesAny(name, excludePatterns.patterns)

\* C7: in a plugin run the filters act after conflict resolution and
\* merging: a record that survives deduplication of the parsed records is
\* emitted iff its final name passes the include and exclude patterns.
C7_FiltersAfterDeduplication ==
  pc = "written" =>
    LET final == deduplicateEnums(WithRefs(parsedEnums))
    IN /\ \A i \in 1..Len(final) :
            (\E k \in 1..Len(declarations) :
               /\ declarations[k].enum.name = final[i].name
               /\ declarations[k].enum.originalTypePath = final[i].originalTypePath)
            <=> passesFilters(final[i].name)
       /\ \A k \in 1..Len(declarations) :
            \E i \in 1..Len(final) :
              /\ declarations[k].enum.name = final[i].name
              /\ declarations[k].enum.originalTypePath = final[i].originalTypePath

\* Sub-scan B reads a union property line at a place where the text read so
\* far is made of standalone definitions and brace-balanced type
\* definitions written one property per line, inside a type definition
ReadsUnionProperty(line) ==
  /\ LineInfo(line).kind = "union"
  /\ structure.wellFormed
  /\ Len(structure.open) > 0
  /\ ScanLine(line)

\* C8: a union property prop, nested under the object properties p1..pn of
\* a type definition T, is recorded exactly once, with the path
\* T.p1...pn.prop and all of its values, whatever comment lines and sibling
\* properties were read before it: the step that reads the line adds exactly
\* that record.
C8_UnionRecordedAtItsPath ==
  [][\A line \in Lines :
       ReadsUnionProperty(line) =>
         /\ Len(foundEnums') = Len(foundEnums) + 1
         /\ SubSeq(foundEnums', 1, Len(foundEnums)) = foundEnums
         /\ foundEnums'[Len(foundEnums')].originalTypePath =
              Join(Append(structure.open, LineInfo(line).name), ".")
         /\ foundEnums'[Len(foundEnums')].values = LineValues(line)]_vars

\* C9: a property line whose value is a quoted literal with braces in it is
\* an ordinary scalar property: reading it adds no record and leaves the
\* scope tracker (path, nesting level, inside-a-type flag) as it was.
C9_UrlLineIsScalar ==
  [][ScanLine(UrlLine) => UNCHANGED <<scopeTracker, foundEnums, standaloneEnums>>]_vars

\* A step in which the two sub-scans read a line (the line is rawLine')
ReadsLine == pc = "parse" /\ linesRead' = linesRead + 1

\* Every record of a list has at least one value
AllHaveValues(list) == \A i \in 1..Len(list) : Len(list[i].values) >= 1

\* C10: every record of the two sub-scans, and so every record that
\* parseEnumsFromTypeFile returns, has at least one value, and a line whose
\* type expression holds no quoted literal adds no record to either
\* sub-scan.
C10_RecordsHaveValues ==
  /\ [](AllHaveValues(standaloneEnums) /\ AllHaveValues(foundEnums)
        /\ AllHaveValues(parsedEnums))
  /\ [][(ReadsLine /\ LineValues(rawLine') = <<>>) =>
          UNCHANGED <<standaloneEnums, foundEnums>>]_vars

\* Sub-scan B has read name: string | null inside a type definition and
\* holds no record
C10_ScalarUnionSkipped ==
  /\ pc = "parse"
  /\ rawLine = ScalarLine
  /\ linesRead = 2
  /\ scopeTracker.isInTypeDefinition
  /\ foundEnums = <<>>

\* Nothing of a parse, a generation or a write has happened
NothingDone ==
  /\ linesRead = 0
  /\ standaloneEnums = <<>> /\ foundEnums = <<>> /\ parsedEnums = <<>>
  /\ enums = <<>> /\ processed = <<>> /\ deduplicatedEnums = <<>>
  /\ deduplicatedAgain = <<>> /\ declarations = <<>>
  /\ generatedCode = ""
  /\ outputFile = ""

\* C11: when the context holds no output path, or no types file exists at
\* the output path, the handler reports one warning, performs no parse,
\* generate or write step, produces no output file and returns normally.
C11_MissingInputWarnsAndReturns ==
  (~invocation.hasOutputPath \/ ~invocation.typesFileExists) =>
    /\ pc \in {"invoked", "skipped"}
    /\ NothingDone
    /\ console.errors = 0 /\ console.traces = 0
    /\ pc = "invoked" => (console.warnings = 0 /\ handlerResult = "running")
    /\ pc = "skipped" => (console.warnings = 1 /\ handlerResult = "returned")

\* The handler has returned from an invocation with an output path and no
\* types file
C11_MissingTypesFileSkipped ==
  /\ pc = "skipped"
  /\ invocation.hasOutputPath
  /\ ~invocation.typesFileExists
  /\ console.warnings = 1

\* C12 as stated: a failure in the try block never reaches the host and
\* is surfaced as a single reported error, whatever the debug flag: one
\* call of console.error in all.
C12_SingleErrorReport ==
  /\ handlerResult # "threw"
  /\ pc = "caught" =>
       (handlerResult = "returned" /\ console.errors + console.traces = 1)

\* C12, amended: a failure in the try block never reaches the host; it is
\* reported by one console.error with the error, followed, when debug is
\* on, by one more console.error with the stack trace, and by nothing else.
C12_CaughtAndReported ==
  /\ handlerResult # "threw"
  /\ pc = "caught" =>
       /\ handlerResult = "returned"
       /\ console.errors = 1
       /\ console.traces = (IF debug THEN 1 ELSE 0)
       /\ console.warnings = 0

\* A failure was caught with debug on
C12_CaughtWithDebug ==
  /\ pc = "caught"
  /\ debug
  /\ console.traces = 1

\* The input record that member i of the first pass's output was made from
\* (the in-place sort of the emission changes the order of its values only)
inputOf(i) == enums[processed[i].ref]

\* Member i of the first pass's output comes from a name-collision group:
\* two or more input records have the name of its input record
inCollisionGroup(i) ==
  Cardinality({j \in 1..Len(enums) : enums[j].name = inputOf(i).name}) >= 2

qualifierTable ==
  { <<"GetV1ResourcesData.query.type", "query">>,    \* contains .query.
    <<"ResponseData.query.type", "query">>,
    <<"PostV1ResourcesData.body.type", "request">>,  \* contains .body.
    <<"ResponseData.body.type", "request">>,
    <<"ResponseData.type", "response">>,             \* contains ResponseData.
    <<"GetResponseData.type", "response">>,
    <<"GetV1ResourcesData.type", "query">>,          \* Get... and Data.
    <<"PostV1ResourcesData.type", "request">>,       \* Post... or Put... and Data.
    <<"PutV1ResourcesData.type", "request">>,
    <<"query.type", "query">>,                       \* contains query
    <<"UserRequest.type", "request">>,               \* contains body or Request
    <<"UserResponse.type", "response">>,             \* contains Response
    <<"PostResponse.type", "response">>,
    <<"request.type", "request">>,                   \* the leading segment
    <<"put.type", "request">>,
    <<"get.type", "response">>,
    <<"widget.type", "response">>,
    <<"account.type", "">> }

tableQualifier(path) == (CHOOSE row \in qualifierTable : row[1] = path)[2]

\* C15: the first pass leaves the only record of a name alone, and renames a
\* record that shares its name with another to qualifier + Capitalize(field)
\* when its path has a qualifier, the qualifier being the first that applies
\* of: contains .query. (query), .body. (request), ResponseData. (response),
\* starts with Get and contains Data. (query), starts with Post or Put and
\* contains Data. (request), contains query (query), body or Request
\* (request), Response (response), then the lower-cased leading segment
\* containing query (query), request, post or put (request), response or
\* get (response); otherwise there is none.
C15_QualifierTable ==
  pc \in {"returned", "repeated"} =>
    \A i \in 1..Len(processed) :
      LET path == processed[i].originalTypePath
      IN /\ ~inCollisionGroup(i) => processed[i].name = inputOf(i).name
         /\ path \in QualifierPaths =>
              /\ extractContextForConflict(path) = tableQualifier(path)
              /\ (inCollisionGroup(i) /\ tableQualifier(path) # "") =>
                   processed[i].name =
                     tableQualifier(path) \o capitalizeFirst(extractFieldName(path))
              /\ (inCollisionGroup(i) /\ tableQualifier(path) = "") =>
                   processed[i].name = inputOf(i).name

\* Two records named type, one of a Get...Data path without .query. and one
\* whose leading segment is put, have been renamed queryType and requestType
C15_VerbAndLeadingSegment ==
  /\ pc = "returned"
  /\ Len(processed) = 2
  /\ processed[1].originalTypePath = "GetV1ResourcesData.type"
  /\ processed[1].name = "queryType"
  /\ processed[2].originalTypePath = "put.type"
  /\ processed[2].name = "requestType"

\* The members of the first pass's output that the second pass groups with
\* member i: those of the same sorted-values key
mergeGroupOf(i) ==
  {j \in 1..Len(processed) : sortedValuesKey(processed[j]) = sortedValuesKey(processed[i])}

\* The refs (places in the input list) of the survivors
survivorRefs == {deduplicatedEnums[k].ref : k \in 1..Len(deduplicatedEnums)}

\* C16: in the second pass, of two or more records with the same value set
\* the one with the highest score survives (50 - length(name), minus 20 for
\* a generic term in the lower-cased name, plus 10 for request, response or
\* query in it); of several with the highest score, the one that stands
\* first in the input list; all the others are discarded.
C16_TieGoesToFirstOfInput ==
  pc \in {"returned", "repeated"} =>
    \A i \in 1..Len(processed) :
      LET group == mergeGroupOf(i)
          highest == {j \in group :
                        \A m \in group : mergeScore(processed[m]) <= mergeScore(processed[j])}
          firstOfInput == CHOOSE j \in highest :
                            \A m \in highest : processed[j].ref <= processed[m].ref
      IN Cardinality(group) >= 2 =>
           \A j \in group : (processed[j].ref \in survivorRefs) <=> (j = firstOfInput)

\* A list of records as a set, the order of the list and of the values left out
RecordSet(list) ==
  {[name |-> list[k].name, values |-> ValueSet(list[k].values),
    originalTypePath |-> list[k].originalTypePath] : k \in 1..Len(list)}

\* C17: deduplicateEnums run on its own result gives the same set of
\* records as the first run: none dropped, added or changed.
C17_SecondRunChangesNothing ==
  pc = "repeated" => RecordSet(deduplicatedAgain) = RecordSet(deduplicatedEnums)

\* The (name, value set) pairs of a list of records
NamedValueSets(list) ==
  {<<list[k].name, ValueSet(list[k].values)>> : k \in 1..Len(list)}

\* C18: the survivors of deduplicateEnums do not depend on the order of its
\* input: every permutation of the input list gives the same set of
\* (name, value set) pairs.
C18_OrderIndependent ==
  pc = "returned" =>
    \A q \in Permutations(1..Len(enums)) :
      NamedValueSets(deduplicateEnums(WithRefs([k \in 1..Len(enums) |-> enums[q[k]]])))
        = NamedValueSets(deduplicatedEnums)

\* C19: for a union of quoted literals wrapped in one or more nested
\* Array<...> markers, the values extracted are exactly the distinct
\* literals of the innermost union, in first-seen order, whatever the number
\* of wrappers: the scan that reads such a property line inside a type adds
\* one record, with these values.
C19_NestedArrayUnwrapped ==
  [][(/\ ReadsLine
      /\ rawLine' \in {ArrayLine, NestedArrayLine}
      /\ scopeTracker.isInTypeDefinition /\ hasContext(scopeTracker))
     => /\ Len(foundEnums') = Len(foundEnums) + 1
        /\ foundEnums'[Len(foundEnums')].values = KeysInOrder(LineValues(rawLine'))]_vars

\* The brace structure of a whole text
RECURSIVE structureOf(_)
structureOf(lines) ==
  IF lines = <<>> THEN [wellFormed |-> TRUE, open |-> <<>>]
  ELSE structureAfter(structureOf(SubSeq(lines, 1, Len(lines) - 1)), lines[Len(lines)])

BraceBalanced(lines) == structureOf(lines).wellFormed /\ structureOf(lines).open = <<>>

\* C20: the records one call of parseEnumsFromTypeFile returns have pairwise
\* distinct originalTypePath values, for a brace-balanced text with distinct
\* type names and distinct property names within each object.
C20_PathsDistinct ==
  (pc = "parsed" /\ content # <<>> /\ BraceBalanced(content)) =>
    \A i, j \in 1..Len(parsedEnums) :
      parsedEnums[i].originalTypePath = parsedEnums[j].originalTypePath => i = j

\* The capitalized word a path starts with (an upper-case letter and the
\* lower-case letters after it, one or more), "" when it starts otherwise
leadingCapitalizedWord(path) ==
  IF Len(path) >= 2 /\ CharAt(path, 1) \in UpperSet /\ CharAt(path, 2) \in LowerSet
  THEN SubSeq(path, 1, RunEnd(path, 2, LowerSet)) ELSE ""

\* A path with a dot-segment that is no HTTP-verb resource path
DottedPlainPath(path) ==
  /\ Includes(path, ".")
  /\ lastSegment(path) # ""
  /\ ~matchesOpenApiPattern(path)

\* C21 as stated: for a path that does not match the HTTP-verb resource
\* pattern and is not a single capitalized word but has a dot-segment,
\* generateName returns the trailing segment followed by Values.
C21_TrailingSegmentValues ==
  (pc = "named" /\ DottedPlainPath(naming.path)) =>
    naming.name = lastSegment(naming.path) \o "Values"

\* C21, amended: for such a path generateName returns the trailing segment
\* followed by Values only when the path does not start with a capitalized
\* word, or starts with Query, Request, Response or Data; when it starts
\* with any other capitalized word, the name is that word with a lower-case
\* first letter followed by the capitalized trailing segment.
C21_LeadingWordBeforeTrailingSegment ==
  (pc = "named" /\ DottedPlainPath(naming.path)) =>
    LET word == leadingCapitalizedWord(naming.path)
    IN IF word = "" \/ word \in {"Query", "Request", "Response", "Data"}
       THEN naming.name = lastSegment(naming.path) \o "Values"
       ELSE naming.name = lowerFirst(word) \o capitalizeFirst(lastSegment(naming.path))

\* generateName has returned apiStatus for the path ApiData.status
C21_ApiDataStatus ==
  /\ pc = "named"
  /\ naming.path = "ApiData.status"
  /\ naming.name = "apiStatus"

\* The scan has read the whole of a text given whole
WholeContentRead == pc = "parse" /\ content # <<>> /\ linesRead = Len(content)

\* The step reads a line that sub-scan B does not skip and that starts no
\* type definition, while the tracker is inside a type definition
ReadsLineInsideType ==
  /\ ReadsLine
  /\ scopeTracker.isInTypeDefinition
  /\ ~shouldSkipLine(cleanLine(rawLine'))
  /\ extractTypeDefinitionName(cleanLine(rawLine')) = ""

NoUrlLine(lines) == \A k \in 1..Len(lines) : lines[k] # UrlLine

\* C22: while sub-scan B is inside a type definition, every line it does
\* not skip changes the nesting depth by the number of opening braces on the
\* line minus the number of closing braces on it, whatever the line is, and
\* after the last line of a brace-balanced type definition the depth is zero
\* and the tracker is outside any type.  (Stated for texts without a brace
\* inside a string literal.)
C22_DepthFollowsBraces ==
  /\ [][(ReadsLineInsideType /\ NoUrlLine(content)) =>
          scopeTracker'.nestingLevel =
            scopeTracker.nestingLevel
              + countOccurrences(cleanLine(rawLine'), "{")
              - countOccurrences(cleanLine(rawLine'), "}")]_vars
  /\ []((WholeContentRead /\ BraceBalanced(content) /\ NoUrlLine(content)) =>
          (scopeTracker.nestingLevel = 0 /\ ~scopeTracker.isInTypeDefinition))

\* The step reads a line whose closing braces sub-scan B counts (the line
\* is not skipped, starts no type definition and no nested object) and they
\* bring the depth to zero or below
ClosesLastScope ==
  LET line == cleanLine(rawLine')
      property == extractUnionTypeProperty(line)
  IN /\ ReadsLineInsideType
     /\ extractNestedObjectProperty(line) = ""
     /\ ~(property.propertyName # "" /\ hasContext(scopeTracker) /\ hasObjectOpeningBrace(line))
     /\ countOccurrences(line, "}") > 0
     /\ scopeTracker.nestingLevel - countOccurrences(line, "}") <= 0

\* C23: when the closing braces of a line bring the depth to zero or
\* below, the tracker is reset (empty path, outside any type, depth 0); and
\* while the tracker is outside any type, a line that starts no type
\* definition produces no record and leaves the tracker as it is.
C23_ResetUntilNextType ==
  /\ [][ClosesLastScope => scopeTracker' = newScopeTracker]_vars
  /\ [][(/\ ReadsLine
          /\ ~scopeTracker.isInTypeDefinition
          /\ extractTypeDefinitionName(cleanLine(rawLine')) = "")
         => /\ foundEnums' = foundEnums
            /\ standaloneEnums' = standaloneEnums
            /\ scopeTracker' = scopeTracker]_vars

\* The closing line of a type definition has been read and the tracker is
\* reset
C23_TypeClosed ==
  /\ pc = "parse"
  /\ rawLine = CloseLine
  /\ structure.wellFormed /\ structure.open = <<>>
  /\ scopeTracker = newScopeTracker

\* C24: in the first pass, a member of a name-collision group whose path
\* yields a qualifier but has no trailing field segment (no dot in the path,
\* as for a standalone definition) is renamed to qualifier +
\* Capitalize(old name).
C24_QualifierPlusOldName ==
  pc \in {"returned", "repeated"} =>
    \A i \in 1..Len(processed) :
      LET path == processed[i].originalTypePath
          qualifier == extractContextForConflict(path)
      IN (inCollisionGroup(i) /\ qualifier # "" /\ ~Includes(path, ".")) =>
           processed[i].name = qualifier \o capitalizeFirst(inputOf(i).name)

\* C25: a call of generateEnumArrays leaves the values list (content and
\* order) and the path of every record of its input list as they were
\* before the call, for survivors and non-survivors alike.
C25_InputListUntouched ==
  [][(pc = "call" /\ pc' = "returned") =>
       /\ Len(enums') = Len(enums)
       /\ \A i \in 1..Len(enums) :
            /\ enums'[i].values = enums[i].values
            /\ enums'[i].originalTypePath = enums[i].originalTypePath]_vars

\* list is the start of longer: records were only added at the end
IsPrefixOf(list, longer) ==
  /\ Len(list) <= Len(longer)
  /\ \A i \in 1..Len(list) : longer[i] = list[i]

\* C26: parseEnumsFromTypeFile returns the records of sub-scan A (standalone
\* definitions) in text order, followed by the records of sub-scan B (nested
\* properties) in text order.  Each sub-scan adds its records at the end of
\* its list as the text is read; a single-line standalone union definition
\* adds exactly one record, to sub-scan A, carrying its values and the path
\* "export type <Name>", and sub-scan B adds none for it; a line that is no
\* standalone definition adds nothing to sub-scan A.
C26_StandaloneThenNested ==
  /\ [][ReadsLine =>
          /\ IsPrefixOf(standaloneEnums, standaloneEnums')
          /\ IsPrefixOf(foundEnums, foundEnums')
          /\ LineInfo(rawLine').kind # "standalone" => standaloneEnums' = standaloneEnums
          /\ LineInfo(rawLine').kind = "standalone" => foundEnums' = foundEnums
          /\ (LineInfo(rawLine').kind = "standalone" /\ Len(LineValues(rawLine')) >= 2) =>
                /\ Len(standaloneEnums') = Len(standaloneEnums) + 1
                /\ standaloneEnums'[Len(standaloneEnums')].values = LineValues(rawLine')
                /\ standaloneEnums'[Len(standaloneEnums')].originalTypePath =
                     "export type " \o LineInfo(rawLine').name]_vars
  /\ [][(pc = "parse" /\ pc' = "parsed") =>
          /\ Len(parsedEnums') = Len(standaloneEnums) + Len(foundEnums)
          /\ \A i \in 1..Len(standaloneEnums) : parsedEnums'[i] = standaloneEnums[i]
          /\ \A j \in 1..Len(foundEnums) :
               parsedEnums'[Len(standaloneEnums) + j] = foundEnums[j]]_vars

\* A standalone definition read after a nested property had given a
\* record: later in the text, first in the result
C26_StandaloneReadAfterNested ==
  /\ pc = "parse"
  /\ rawLine = StatusLine
  /\ Len(foundEnums) = 1
  /\ Len(standaloneEnums) = 1
  /\ standaloneEnums[1].originalTypePath = "export type Status"

\* The paths of NamePaths that no tier can use: absent, without a dot and no
\* standalone definition, or ending in a dot
UnusablePaths == {"", "status", "tags."}

\* The name synthesized from the values, written out for each list of
\* NameValues
synthesizedName(values) ==
  CASE values = <<>> -> "enumValues"
    [] values = <<"a">> -> "aValues"
    [] values = <<"active", "inactive">> -> "actinValues"
    [] values = <<"PENDING", "COMPLETED">> -> "pencoValues"
    [] values = <<"Hi">> -> "hiValues"
    [] values = <<"json", "xml", "csv">> -> "jsoxmValues"

\* C27: generateName returns a non-empty name for every values list, the
\* empty one included, and every path, absent or matching no tier included;
\* with no usable path the name is the lower-cased first three characters of
\* the first value, then the lower-cased first two of the second value if
\* there is one, then Values, and it is enumValues when there is no value.
C27_AlwaysAName ==
  pc = "named" =>
    /\ naming.name # ""
    /\ naming.path \in UnusablePaths => naming.name = synthesizedName(naming.values)

\* No value and no path: the last stand-in
C27_NoValuesNoPath ==
  /\ pc = "named"
  /\ naming.values = <<>>
  /\ naming.path = ""
  /\ naming.name = "enumValues"

\* C28: the identifiers of the declarations that one call of
\* generateEnumArrays emits are pairwise distinct: no two export const
\* declarations of one output carry the same identifier.  (Stated for input
\* lists whose records have pairwise distinct paths.)
C28_IdentifiersDistinct ==
  (\A a, b \in 1..Len(enums) : enums[a].originalTypePath = enums[b].originalTypePath => a = b)
    => \A a, b \in 1..Len(declarations) :
         declarations[a].arrayName = declarations[b].arrayName => a = b

\* The step reads a line that starts a type definition
ReadsTypeStart == ReadsLine /\ LineInfo(rawLine').kind \in {"typeOpen", "standalone"}

\* C29: whatever lines sub-scan B has read, the nesting depth of its tracker
\* is not negative and the tracker is inside a type definition exactly when
\* its path is not empty; a line that starts a type definition makes the
\* path that type's name alone, and every other line after which the
\* tracker is inside a type found it inside one and leaves the first
\* element of the path as it was: closing braces never remove it.
C29_TrackerConsistent ==
  /\ [](/\ scopeTracker.nestingLevel >= 0
        /\ scopeTracker.isInTypeDefinition <=> (scopeTracker.contextPath # <<>>))
  /\ [][ReadsTypeStart =>
          /\ scopeTracker'.isInTypeDefinition
          /\ scopeTracker'.contextPath = <<LineInfo(rawLine').name>>]_vars
  /\ [][(ReadsLine /\ ~ReadsTypeStart /\ scopeTracker'.isInTypeDefinition) =>
          /\ scopeTracker.isInTypeDefinition
          /\ Len(scopeTracker.contextPath) >= 1
          /\ Len(scopeTracker'.contextPath) >= 1
          /\ Head(scopeTracker'.contextPath) = Head(scopeTracker.contextPath)]_vars

\* A closing brace read while the depth is above one and the path holds
\* the type's name only: the name stays
C29_RootKeptByClosingBrace ==
  /\ pc = "parse"
  /\ linesRead >= 2
  /\ content[linesRead - 1] = MethodOpenLine
  /\ rawLine = CloseLine
  /\ scopeTracker = [contextPath |-> <<"Root">>, nestingLevel |-> 1,
                     isInTypeDefinition |-> TRUE]

\* What a new EnumParser returns for a text: sub-scan A's matches from the
\* start of the text, sub-scan B's records from a new tracker
RECURSIVE freshStandalone(_)
freshStandalone(lines) ==
  IF lines = <<>> THEN <<>> ELSE standaloneRecords(Head(lines)) \o freshStandalone(Tail(lines))

RECURSIVE freshNested(_, _)
freshNested(t, lines) ==
  IF lines = <<>> THEN <<>>
  ELSE LET step == scanLine(t, Head(lines))
       IN step.found \o freshNested(step.tracker, Tail(lines))

freshParse(lines) == freshStandalone(lines) \o freshNested(newScopeTracker, lines)

\* C30: an EnumParser carries no state from one call of
\* parseEnumsFromTypeFile to the next: every call, the first and the later
\* ones alike, returns the records a new parser returns for its text, and
\* between two calls the position of the shared regular expression is at the
\* start and the scope tracker is a new one.
C30_CallsAreIndependent ==
  /\ pc = "parsed" => parsedEnums = freshParse(content)
  /\ (pc = "parsed" \/ (pc = "parse" /\ linesRead = 0)) =>
       lastIndex = 0 /\ scopeTracker = newScopeTracker

\* A second call on the same parser has found the standalone definition at
\* the start of its text and a nested property after it
C30_SecondCallFindsStandalone ==
  /\ pc = "parsed"
  /\ calls = 2
  /\ content[1] = StatusLine
  /\ Len(parsedEnums) = 2
  /\ parsedEnums[1].originalTypePath = "export type Status"

====
